---- MODULE Spec2Model ----
(***************************************************************************)
(* pdf2cbz (src/src/pdf2cbz/__main__.py): the convert and inspect commands  *)
(* and the helper _filter_outliers, as state machines.                      *)
(*                                                                          *)
(* Numbers.  Page measurements are modelled as integers.  PyMuPDF delivers  *)
(* rectangle coordinates that are single-precision values, for which the    *)
(* products, sums, the division by 4 and the factor 1.5 of _filter_outliers *)
(* are exact in double precision; the model therefore computes quartiles    *)
(* and bounds as exact rationals <<numerator, denominator>>.                *)
(***************************************************************************)
EXTENDS Integers, Sequences, FiniteSets

VARIABLES
    cmd,               \* which entry point runs: "filter", "inspect", "convert"
    pc,                \* position in the running command
    \* ---- _filter_outliers called on its own
    data,              \* the argument
    result,            \* the returned list
    \* ---- inspect
    doc,               \* the opened document: a sequence of page rectangles
    page_num,          \* loop variable of the page loops (inspect and convert)
    widths, heights,
    widths_filtered, heights_filtered,
    avg_width, avg_height,
    report,            \* what inspect printed: pages and the two sizes
    \* ---- convert
    height_px,         \* --height: <<>> when not given, else <<pixels>>
    limit,             \* --limit: <<>> when not given, else <<pages>>
    tmp_dir,           \* the directory <stem>: whether it exists, and its entries
    zip_file,          \* <stem>.zip: whether it exists, and its archive entries
    cbz_file,          \* <stem>.cbz, likewise
    fs0,               \* the three as the command found them
    num_pages,
    saved,             \* the names pix.save wrote, in order
    files,             \* sorted(tmp_path.glob("*.jpg"))
    stdout             \* the lines typer.echo printed

cvars == <<height_px, limit, tmp_dir, zip_file, cbz_file, fs0, num_pages,
           saved, files, stdout>>
ivars == <<widths, heights, widths_filtered, heights_filtered,
           avg_width, avg_height, report>>
fvars == <<data, result>>
vars == <<cmd, pc, page_num, doc, fvars, ivars, cvars>>

None == "None"

(***************************************************************************)
(* Bounds of the model.                                                    *)
(***************************************************************************)
MaxLen == 7            \* longest sample handed to _filter_outliers directly
MaxPages == 10         \* most pages of an inspected document
MaxOdd == 2            \* most pages of a document that differ from its base size

FilterValues == {0, 10, 11, 100}

\* Page rectangles <<width, height>>: the base size, a nearly equal one, a far
\* larger and a far smaller one, and one whose width alone is far off.
BaseSize == <<10, 20>>
OddSizes == {<<11, 21>>, <<40, 60>>, <<1, 2>>, <<40, 20>>}

(***************************************************************************)
(* Exact rationals <<n, d>>, d > 0.                                         *)
(***************************************************************************)
RSub(a, b) == <<a[1] * b[2] - b[1] * a[2], a[2] * b[2]>>
RAdd(a, b) == <<a[1] * b[2] + b[1] * a[2], a[2] * b[2]>>
RMul(a, b) == <<a[1] * b[1], a[2] * b[2]>>
RLe(a, b) == a[1] * b[2] <= b[1] * a[2]
RLt(a, b) == a[1] * b[2] < b[1] * a[2]
REq(a, b) == a[1] * b[2] = b[1] * a[2]
RInt(x) == <<x, 1>>

(***************************************************************************)
(* sorted(): a stable sort into non-decreasing order.                       *)
(***************************************************************************)
RECURSIVE Insert(_, _)
Insert(s, x) ==
    IF s = <<>> THEN <<x>>
    ELSE IF x < Head(s) THEN <<x>> \o s
    ELSE <<Head(s)>> \o Insert(Tail(s), x)

RECURSIVE sorted(_)
sorted(s) ==
    IF s = <<>> THEN <<>>
    ELSE Insert(sorted(SubSeq(s, 1, Len(s) - 1)), s[Len(s)])

(***************************************************************************)
(* statistics.quantiles(data, n=n), default method "exclusive", for         *)
(* len(data) >= 2: the n-1 cut points, each an interpolation between two    *)
(* neighbours of the sorted data.  s[j] is the library's data[j - 1].       *)
(***************************************************************************)
quantiles(d, n) ==
    LET s == sorted(d)
        ld == Len(s)
        m == ld + 1
    IN  [i \in 1..(n - 1) |->
            LET j0 == (i * m) \div n
                j == IF j0 < 1 THEN 1 ELSE IF j0 > ld - 1 THEN ld - 1 ELSE j0
                delta == i * m - j * n
            IN  <<s[j] * (n - delta) + s[j + 1] * delta, n>>]

\* As InBounds, with the two comparisons strict.
InBounds_Strict(x, lower_bound, upper_bound) ==
    RLt(lower_bound, RInt(x)) /\ RLt(RInt(x), upper_bound)

\* The list comprehension [x for x in data if lower_bound <= x <= upper_bound].
InBounds(x, lower_bound, upper_bound) ==
    RLe(lower_bound, RInt(x)) /\ RLe(RInt(x), upper_bound)

Comprehension(d, lower_bound, upper_bound) ==
    SelectSeq(d, LAMBDA x : InBounds(x, lower_bound, upper_bound))

\* As lower_bound_of, with the sign of the IQR term slipped.
lower_bound_of_SignSlip(q1, iqr) == RAdd(q1, RMul(<<3, 2>>, iqr))

\* As upper_bound_of, with the wider fence 3.0 * iqr.
upper_bound_of_Wide(q3, iqr) == RAdd(q3, RMul(<<3, 1>>, iqr))

lower_bound_of(q1, iqr) == RSub(q1, RMul(<<3, 2>>, iqr))
upper_bound_of(q3, iqr) == RAdd(q3, RMul(<<3, 2>>, iqr))

MinSample == 4

\* As _filter_outliers, with the sort done before the length test, a short
\* sample being returned sorted.
_filter_outliers_SortsShort(d) ==
    IF Len(d) < MinSample THEN sorted(d)
    ELSE
        LET q1 == quantiles(d, 4)[1]
            q3 == quantiles(d, 4)[3]
            iqr == RSub(q3, q1)
        IN  Comprehension(d, lower_bound_of(q1, iqr), upper_bound_of(q3, iqr))

_filter_outliers(d) ==
    IF Len(d) < MinSample THEN d
    ELSE
        LET sorted_data == sorted(d)
            q1 == quantiles(sorted_data, 4)[1]
            q3 == quantiles(sorted_data, 4)[3]
            iqr == RSub(q3, q1)
            lower_bound == lower_bound_of(q1, iqr)
            upper_bound == upper_bound_of(q3, iqr)
        IN  Comprehension(d, lower_bound, upper_bound)

\* The variables of a command that is not the one running.
InspectIdle ==
    /\ widths = <<>> /\ heights = <<>>
    /\ widths_filtered = None /\ heights_filtered = None
    /\ avg_width = None /\ avg_height = None
    /\ report = None

Absent == [exists |-> FALSE, entries |-> <<>>]
NoDir == [exists |-> FALSE, entries |-> {}]

ConvertIdle ==
    /\ height_px = <<>> /\ limit = <<>>
    /\ tmp_dir = NoDir /\ zip_file = Absent /\ cbz_file = Absent
    /\ fs0 = [tmp_dir |-> NoDir, zip_file |-> Absent, cbz_file |-> Absent]
    /\ num_pages = 0
    /\ saved = <<>> /\ files = <<>> /\ stdout = <<>>

(***************************************************************************)
(* _filter_outliers called on its own, on every sample up to MaxLen.        *)
(***************************************************************************)
Samples == UNION {[1..n -> FilterValues] : n \in 0..MaxLen}

InitFilter ==
    /\ cmd = "filter"
    /\ pc = "call"
    /\ data \in Samples
    /\ result = None
    /\ page_num = 0
    /\ doc = <<>>
    /\ InspectIdle
    /\ ConvertIdle

FilterCall ==
    /\ cmd = "filter"
    /\ pc = "call"
    /\ result' = _filter_outliers(data)
    /\ pc' = "returned"
    /\ UNCHANGED <<cmd, page_num, doc, data, ivars, cvars>>

(***************************************************************************)
(* inspect                                                                  *)
(***************************************************************************)
\* Documents: 1..MaxPages pages of the base size, up to MaxOdd of them replaced.
OddSets(n) == {S \in SUBSET (1..n) : Cardinality(S) <= MaxOdd}

Documents ==
    UNION {UNION {{[i \in 1..n |-> IF i \in S THEN f[i] ELSE BaseSize] :
                      f \in [S -> OddSizes]} : S \in OddSets(n)} : n \in 1..MaxPages}

InitInspect ==
    /\ cmd = "inspect"
    /\ pc = "pages"
    /\ doc \in Documents
    /\ page_num = 0
    /\ widths = <<>> /\ heights = <<>>
    /\ widths_filtered = None /\ heights_filtered = None
    /\ avg_width = None /\ avg_height = None
    /\ report = None
    /\ data = <<>> /\ result = None
    /\ ConvertIdle

page_count == Len(doc)

\* One round of `for page_num in range(page_count)`: load the page, record its
\* rectangle.  page_num counts the rounds done.
InspectPage ==
    /\ cmd = "inspect"
    /\ pc = "pages"
    /\ page_num < page_count
    /\ LET rect == doc[page_num + 1]
       IN  /\ widths' = Append(widths, rect[1])
           /\ heights' = Append(heights, rect[2])
    /\ page_num' = page_num + 1
    /\ UNCHANGED <<cmd, pc, fvars, cvars, doc, widths_filtered, heights_filtered,
                   avg_width, avg_height, report>>

FilterThreshold == 10

\* As ApplyFilter, from FilterThreshold + 1 pages on.
ApplyFilter_Strict == page_count > FilterThreshold

ApplyFilter == page_count >= FilterThreshold

\* As Filtered, the filter never applied.
Filtered_Raw(xs) == xs

\* widths_filtered / heights_filtered of a list: filtered from FilterThreshold
\* pages on, the raw list below.
Filtered(xs) == IF ApplyFilter THEN _filter_outliers(xs) ELSE xs

\* The loop is over: filter (or not) the two lists, each on its own.
InspectFilter ==
    /\ cmd = "inspect"
    /\ pc = "pages"
    /\ page_num = page_count
    /\ widths_filtered' = Filtered(widths)
    /\ heights_filtered' = Filtered(heights)
    /\ pc' = "average"
    /\ UNCHANGED <<cmd, page_num, fvars, cvars, doc, widths, heights,
                   avg_width, avg_height, report>>

RECURSIVE sum(_)
sum(s) == IF s = <<>> THEN 0 ELSE Head(s) + sum(Tail(s))

\* sum(xs) / len(xs), for a non-empty list.
Average(xs) == <<sum(xs), Len(xs)>>

\* The two averages; the first division by zero raises ZeroDivisionError.
InspectAverage ==
    /\ cmd = "inspect"
    /\ pc = "average"
    /\ IF Len(widths_filtered) = 0 \/ Len(heights_filtered) = 0
       THEN /\ pc' = "ZeroDivisionError"
            /\ UNCHANGED <<avg_width, avg_height>>
       ELSE /\ avg_width' = Average(widths_filtered)
            /\ avg_height' = Average(heights_filtered)
            /\ pc' = "report"
    /\ UNCHANGED <<cmd, page_num, fvars, cvars, doc, widths, heights,
                   widths_filtered, heights_filtered, report>>

\* f"{x:.2f}": x in hundredths, rounded to nearest, ties to even (the averages
\* that tie are binary fractions, exact as floats).
Fmt2f(x) ==
    LET n == 100 * x[1]
        d == x[2]
        q == n \div d
        r == n % d
    IN  IF 2 * r < d THEN q
        ELSE IF 2 * r > d THEN q + 1
        ELSE IF q % 2 = 0 THEN q ELSE q + 1

InspectReport ==
    /\ cmd = "inspect"
    /\ pc = "report"
    /\ report' = [Pages |-> page_count,
                  Width |-> Fmt2f(avg_width),
                  Height |-> Fmt2f(avg_height)]
    /\ pc' = "done"
    /\ UNCHANGED <<cmd, page_num, fvars, cvars, doc, widths, heights,
                   widths_filtered, heights_filtered, avg_width, avg_height>>

(***************************************************************************)
(* convert                                                                  *)
(*                                                                          *)
(* File names are sequences of character codes, compared as Python compares *)
(* strings.  A directory entry is [name, kind, content]; an archive entry   *)
(* is [arcname, content].                                                   *)
(***************************************************************************)
MaxDocPages == 3       \* most pages of a converted document
MaxLimit == 3          \* largest --limit tried (the smallest is -1)

DotJpg == <<46, 106, 112, 103>>                        \* ".jpg"
CoverJpg == <<99, 111, 118, 101, 114>> \o DotJpg       \* "cover.jpg"
NotesTxt == <<110, 111, 116, 101, 115, 46, 116, 120, 116>>   \* "notes.txt"
SubName == <<115, 117, 98>>                            \* "sub"
Stale002 == <<48, 48, 50>> \o DotJpg                   \* "002.jpg"

StaleContent == [src |-> "stale", page |-> 0, height |-> 0]

\* What an earlier or interrupted run, or the user, may have left in <stem>.
StaleEntries ==
    {[name |-> Stale002, kind |-> "file", content |-> StaleContent],
     [name |-> CoverJpg, kind |-> "file", content |-> StaleContent],
     [name |-> NotesTxt, kind |-> "file", content |-> StaleContent],
     [name |-> SubName, kind |-> "dir", content |-> StaleContent]}

StaleArchive ==
    [exists |-> TRUE,
     entries |-> <<[arcname |-> CoverJpg, content |-> StaleContent]>>]

TargetHeights == {40}
Limits == {<<>>} \cup {<<l>> : l \in (0 - 1)..MaxLimit}

InitConvert ==
    /\ cmd = "convert"
    /\ pc = "start"
    /\ doc \in {[i \in 1..n |-> BaseSize] : n \in 1..MaxDocPages}
    /\ height_px \in {<<>>} \cup {<<h>> : h \in TargetHeights}
    /\ limit \in Limits
    /\ tmp_dir \in {NoDir} \cup {[exists |-> TRUE, entries |-> E] : E \in SUBSET StaleEntries}
    /\ zip_file \in {Absent, StaleArchive}
    /\ cbz_file \in {Absent, StaleArchive}
    /\ fs0 = [tmp_dir |-> tmp_dir, zip_file |-> zip_file, cbz_file |-> cbz_file]
    /\ page_num = 0
    /\ num_pages = 0
    /\ saved = <<>> /\ files = <<>> /\ stdout = <<>>
    /\ data = <<>> /\ result = None
    /\ InspectIdle

\* if not tmp_path.exists(): os.makedirs(tmp_path)
ConvertMkdir ==
    /\ cmd = "convert"
    /\ pc = "start"
    /\ tmp_dir' = IF tmp_dir.exists THEN tmp_dir ELSE [exists |-> TRUE, entries |-> {}]
    /\ pc' = "open"
    /\ UNCHANGED <<cmd, page_num, doc, fvars, ivars, height_px, limit, zip_file,
                   cbz_file, fs0, num_pages, saved, files, stdout>>

Min(a, b) == IF a < b THEN a ELSE b

NumPages == IF limit = <<>> THEN Len(doc) ELSE Min(limit[1], Len(doc))

\* fitz.open succeeds: num_pages is set and the page loop starts.
ConvertOpen ==
    /\ cmd = "convert"
    /\ pc = "open"
    /\ num_pages' = NumPages
    /\ page_num' = 0
    /\ pc' = "pages"
    /\ UNCHANGED <<cmd, doc, fvars, ivars, height_px, limit, tmp_dir, zip_file,
                   cbz_file, fs0, saved, files, stdout>>

\* fitz.open raises on an unreadable source: uncaught.
ConvertOpenFails ==
    /\ cmd = "convert"
    /\ pc = "open"
    /\ pc' = "FileDataError"
    /\ UNCHANGED <<cmd, page_num, doc, fvars, ivars, cvars>>

\* f"{n:03d}": the decimal digits of n >= 0, zero-padded on the left to 3.
RECURSIVE Digits(_)
Digits(n) == IF n < 10 THEN <<48 + n>> ELSE Digits(n \div 10) \o <<48 + (n % 10)>>

PadWidth == 3

RECURSIVE PadLeft(_, _)
PadLeft(s, w) == IF Len(s) >= w THEN s ELSE PadLeft(<<48>> \o s, w)

Fmt03d(n) == PadLeft(Digits(n), PadWidth)

\* As JpgName, numbering from 000.
JpgName_ZeroBased(page) == Fmt03d(page) \o DotJpg

JpgName(page) == Fmt03d(page + 1) \o DotJpg

\* Writing a file: an entry of the same name is replaced.
WriteFile(dir, entry) ==
    [dir EXCEPT !.entries = {e \in @ : e.name # entry.name} \cup {entry}]

\* The pixmap of a page: its height in pixels at scale height_px / rect.height,
\* or at scale 1.0.
PixmapHeight(rect) ==
    LET scale == IF height_px = <<>> THEN <<1, 1>> ELSE <<height_px[1], rect[2]>>
    IN  (rect[2] * scale[1]) \div scale[2]

LoopRunning == page_num < num_pages

\* One round of `for page_num in range(num_pages)`: load, rasterize, save.
ConvertPage ==
    /\ cmd = "convert"
    /\ pc = "pages"
    /\ LoopRunning
    /\ LET rect == doc[page_num + 1]
           image == [name |-> JpgName(page_num), kind |-> "file",
                     content |-> [src |-> "run", page |-> page_num,
                                  height |-> PixmapHeight(rect)]]
       IN  /\ tmp_dir' = WriteFile(tmp_dir, image)
           /\ saved' = Append(saved, image.name)
    /\ page_num' = page_num + 1
    /\ UNCHANGED <<cmd, pc, doc, fvars, ivars, height_px, limit, zip_file,
                   cbz_file, fs0, num_pages, files, stdout>>

\* As ConvertPageFails, with the temp directory removed on the way out.
ConvertPageFails_CleansUp ==
    /\ cmd = "convert"
    /\ pc = "pages"
    /\ LoopRunning
    /\ tmp_dir' = NoDir
    /\ pc' = "RuntimeError"
    /\ UNCHANGED <<cmd, page_num, doc, fvars, ivars, height_px, limit, zip_file,
                   cbz_file, fs0, num_pages, saved, files, stdout>>

\* load_page, get_pixmap or pix.save raises: uncaught.  A failing save may or
\* may not leave a truncated file behind.
ConvertPageFails ==
    /\ cmd = "convert"
    /\ pc = "pages"
    /\ LoopRunning
    /\ \/ UNCHANGED tmp_dir
       \/ tmp_dir' = WriteFile(tmp_dir,
                        [name |-> JpgName(page_num), kind |-> "file",
                         content |-> [src |-> "partial", page |-> page_num,
                                      height |-> 0]])
    /\ pc' = "RuntimeError"
    /\ UNCHANGED <<cmd, page_num, doc, fvars, ivars, height_px, limit, zip_file,
                   cbz_file, fs0, num_pages, saved, files, stdout>>

\* String comparison, as of Python's str.
RECURSIVE LexLt(_, _)
LexLt(a, b) ==
    IF b = <<>> THEN FALSE
    ELSE IF a = <<>> THEN TRUE
    ELSE IF Head(a) # Head(b) THEN Head(a) < Head(b)
    ELSE LexLt(Tail(a), Tail(b))

\* glob("*.jpg"): the entries whose name ends in ".jpg".
IsJpg(name) ==
    /\ Len(name) >= Len(DotJpg)
    /\ SubSeq(name, Len(name) - Len(DotJpg) + 1, Len(name)) = DotJpg

GlobJpg(dir) == {e \in dir.entries : IsJpg(e.name)}

\* sorted() of a set of paths of one directory: ascending by name.
RECURSIVE SortedPaths(_)
SortedPaths(S) ==
    IF S = {} THEN <<>>
    ELSE LET first == CHOOSE e \in S : \A o \in S \ {e} : LexLt(e.name, o.name)
         IN  <<first>> \o SortedPaths(S \ {first})

\* The page loop is over: files = sorted(tmp_path.glob("*.jpg")), and
\* ZipFile(zip_path, "w") creates (or truncates) <stem>.zip.
ConvertGlob ==
    /\ cmd = "convert"
    /\ pc = "pages"
    /\ ~LoopRunning
    /\ files' = SortedPaths(GlobJpg(tmp_dir))
    /\ zip_file' = [exists |-> TRUE, entries |-> <<>>]
    /\ pc' = "zip"
    /\ UNCHANGED <<cmd, page_num, doc, fvars, ivars, height_px, limit, tmp_dir,
                   cbz_file, fs0, num_pages, saved, stdout>>

\* One round of `for file in files`: zipf.write(file, arcname=file.name).
ConvertZipWrite ==
    /\ cmd = "convert"
    /\ pc = "zip"
    /\ Len(zip_file.entries) < Len(files)
    /\ LET file == files[Len(zip_file.entries) + 1]
       IN  zip_file' = [zip_file EXCEPT !.entries =
                           Append(@, [arcname |-> file.name, content |-> file.content])]
    /\ UNCHANGED <<cmd, pc, page_num, doc, fvars, ivars, height_px, limit, tmp_dir,
                   cbz_file, fs0, num_pages, saved, files, stdout>>

\* The archive is closed; os.rename(zip_path, cbz_path) replaces <stem>.cbz
\* (POSIX rename, the tool's data directory being /data).
ConvertRename ==
    /\ cmd = "convert"
    /\ pc = "zip"
    /\ Len(zip_file.entries) = Len(files)
    /\ cbz_file' = zip_file
    /\ zip_file' = Absent
    /\ pc' = "cleanup"
    /\ UNCHANGED <<cmd, page_num, doc, fvars, ivars, height_px, limit, tmp_dir,
                   fs0, num_pages, saved, files, stdout>>

\* One round of `for file in tmp_path.glob("*"): os.remove(file)`, the entries
\* coming in the directory's order, which is unspecified.  os.remove of a
\* directory raises.
ConvertRemove ==
    /\ cmd = "convert"
    /\ pc = "cleanup"
    /\ \E file \in tmp_dir.entries :
          IF file.kind = "dir"
          THEN /\ pc' = "IsADirectoryError"
               /\ UNCHANGED tmp_dir
          ELSE /\ tmp_dir' = [tmp_dir EXCEPT !.entries = @ \ {file}]
               /\ UNCHANGED pc
    /\ UNCHANGED <<cmd, page_num, doc, fvars, ivars, height_px, limit, zip_file,
                   cbz_file, fs0, num_pages, saved, files, stdout>>

\* os.rmdir(tmp_path), every entry having been removed.
ConvertRmdir ==
    /\ cmd = "convert"
    /\ pc = "cleanup"
    /\ tmp_dir.entries = {}
    /\ tmp_dir' = NoDir
    /\ pc' = "echo"
    /\ UNCHANGED <<cmd, page_num, doc, fvars, ivars, height_px, limit, zip_file,
                   cbz_file, fs0, num_pages, saved, files, stdout>>

\* typer.echo(f"Completed: {cbz_path}")
ConvertEcho ==
    /\ cmd = "convert"
    /\ pc = "echo"
    /\ stdout' = Append(stdout, "Completed")
    /\ pc' = "done"
    /\ UNCHANGED <<cmd, page_num, doc, fvars, ivars, height_px, limit, tmp_dir,
                   zip_file, cbz_file, fs0, num_pages, saved, files>>

\* The helper on its own, and the two commands.
NextFilter == FilterCall

NextInspect == InspectPage \/ InspectFilter \/ InspectAverage \/ InspectReport

NextConvert ==
    \/ ConvertMkdir \/ ConvertOpen \/ ConvertOpenFails
    \/ ConvertPage \/ ConvertPageFails
    \/ ConvertGlob \/ ConvertZipWrite \/ ConvertRename
    \/ ConvertRemove \/ ConvertRmdir \/ ConvertEcho

SpecFilter == InitFilter /\ [][NextFilter]_vars

SpecInspect == InitInspect /\ [][NextInspect]_vars

SpecConvert == InitConvert /\ [][NextConvert]_vars

\* All three together.
Init == InitFilter \/ InitInspect \/ InitConvert

Next == NextFilter \/ NextInspect \/ NextConvert

Spec == Init /\ [][Next]_vars

(***************************************************************************)
(* Properties of _filter_outliers                                           *)
(***************************************************************************)
Returned == cmd = "filter" /\ pc = "returned"

\* The k-th smallest value of a sample (k in 1..Len(d)), by counting: it
\* depends on the values and their multiplicities only.
KthSmallest(d, k) ==
    CHOOSE v \in {d[i] : i \in 1..Len(d)} :
        /\ Cardinality({i \in 1..Len(d) : d[i] < v}) < k
        /\ k <= Cardinality({i \in 1..Len(d) : d[i] <= v})

\* Four times the first and the third quartile of a sample of n >= 4 values
\* (exclusive method: the cut at position i * (n + 1) / 4 of the order
\* statistics, interpolated linearly).
Quartile4(d, i) ==
    LET n == Len(d)
        j0 == (i * (n + 1)) \div 4
        j == IF j0 > n - 1 THEN n - 1 ELSE j0
        delta == i * (n + 1) - 4 * j
    IN  KthSmallest(d, j) * (4 - delta) + KthSmallest(d, j + 1) * delta

\* Q1 - 1.5 * IQR <= v <= Q3 + 1.5 * IQR, all terms multiplied by 8.
WithinFences(d, v) ==
    LET q1 == Quartile4(d, 1)
        q3 == Quartile4(d, 3)
    IN  /\ 2 * q1 - 3 * (q3 - q1) <= 8 * v
        /\ 8 * v <= 2 * q3 + 3 * (q3 - q1)

\* r is d restricted to the positions in K, in order.
IsRestriction(r, d, K) ==
    /\ Len(r) = Cardinality(K)
    /\ \A i \in K : r[Cardinality({j \in K : j <= i})] = d[i]

\* C4: a sample of length 0, 1, 2 or 3 is returned unchanged: the same values
\* in the same order, whatever they are.
C4_ShortSampleUnchanged ==
    (Returned /\ Len(data) < 4) => result = data

\* A sample of three values, the last far from the others and out of order,
\* came back as it was.
C4_Witness ==
    /\ Returned
    /\ data = <<10, 100, 0>>
    /\ result = data

\* C5: for a sample of length >= 4 the result is exactly the input restricted,
\* in order and with multiplicity, to the values v with
\* Q1 - 1.5*IQR <= v <= Q3 + 1.5*IQR (both inclusive), the quartiles being
\* those of the multiset of values; so a sample wholly inside the fences is
\* returned equal to the input.
C5_ExactlyTheValuesWithinFences ==
    (Returned /\ Len(data) >= 4) =>
        /\ IsRestriction(result, data,
                         {i \in 1..Len(data) : WithinFences(data, data[i])})
        /\ (\A i \in 1..Len(data) : WithinFences(data, data[i])) => result = data

\* A sample with a duplicated value on a fence (IQR = 0) and values outside
\* it on both sides: the duplicates are kept, the others dropped.
C5_Witness ==
    /\ Returned
    /\ data = <<0, 10, 10, 100, 10, 10, 10>>
    /\ result = <<10, 10, 10, 10, 10>>

\* C10: for a sample of length >= 4 the result is never empty, and inspect
\* never divides by an empty list's length.
C10_FilterNeverEmpties ==
    /\ (Returned /\ Len(data) >= 4) => Len(result) >= 1
    /\ pc # "ZeroDivisionError"
    /\ (cmd = "inspect" /\ pc \in {"average", "report", "done"}) =>
           (Len(widths_filtered) >= 1 /\ Len(heights_filtered) >= 1)

\* inspect finished on a ten-page document after the filter dropped two of its
\* widths (a far larger and a far smaller page) and kept eight.
C10_Witness ==
    /\ cmd = "inspect"
    /\ pc = "done"
    /\ page_count = 10
    /\ Len(widths_filtered) = 8
    /\ avg_width = <<80, 8>>

\* One value x among k copies of c.
LoneValue(d, c, x) ==
    /\ x # c
    /\ Cardinality({i \in 1..Len(d) : d[i] = x}) = 1
    /\ \A i \in 1..Len(d) : d[i] \in {c, x}

Copies(c, k) == [i \in 1..k |-> c]

\* C1 as stated: k >= 4 copies of one value c plus one value far above or
\* below, at any position: the result is the k copies, without the far value.
C1_LoneExtremeExcludedFromFive ==
    \A c \in {10, 11} : \A x \in {0, 100} :
        (Returned /\ Len(data) >= 5 /\ LoneValue(data, c, x)) =>
            result = Copies(c, Len(data) - 1)

\* C1 amended: the same from k >= 5 copies on (a sample of 6 or more).
C1_LoneExtremeExcludedFromSix ==
    \A c \in {10, 11} : \A x \in {0, 100} :
        (Returned /\ Len(data) >= 6 /\ LoneValue(data, c, x)) =>
            result = Copies(c, Len(data) - 1)

\* Five copies of 10 and a 100 in the middle: the 100 is dropped.
C1_Witness ==
    /\ Returned
    /\ data = <<10, 10, 100, 10, 10, 10>>
    /\ result = <<10, 10, 10, 10, 10>>

(***************************************************************************)
(* Properties of inspect                                                    *)
(***************************************************************************)
Inspected == cmd = "inspect" /\ pc = "done"

FarSizes == {<<40, 60>>, <<1, 2>>}
NearSizes == {<<10, 20>>, <<11, 21>>}

\* Every page but page f is of the cluster, and page f is far off in width and
\* in height.
OneOutlierPage(f) ==
    /\ doc[f] \in FarSizes
    /\ \A i \in 1..Len(doc) \ {f} : doc[i] \in NearSizes

\* The measurements (dim = 1: widths, 2: heights) of all pages, and of all
\* pages but page f.
Measure(dim) == [i \in 1..Len(doc) |-> doc[i][dim]]
MeasureBut(dim, f) ==
    [i \in 1..(Len(doc) - 1) |-> IF i < f THEN doc[i][dim] ELSE doc[i + 1][dim]]

RECURSIVE Total(_)
Total(s) == IF Len(s) = 0 THEN 0 ELSE s[Len(s)] + Total(SubSeq(s, 1, Len(s) - 1))

Mean(s) == <<Total(s), Len(s)>>

\* |a - b| for rationals.
RDist(a, b) ==
    LET n == a[1] * b[2] - b[1] * a[2]
    IN  <<IF n < 0 THEN 0 - n ELSE n, a[2] * b[2]>>

CloserToCluster(avg, dim, f) ==
    RLt(RDist(avg, Mean(MeasureBut(dim, f))),
        RDist(Mean(Measure(dim)), Mean(MeasureBut(dim, f))))

C8_FilterFromTenPagesEachListAlone ==
    (cmd = "inspect" /\ pc \in {"average", "report", "done"}) =>
        /\ Len(doc) >= 10 =>
               /\ widths_filtered = _filter_outliers(Measure(1))
               /\ heights_filtered = _filter_outliers(Measure(2))
        /\ Len(doc) < 10 =>
               /\ widths_filtered = Measure(1)
               /\ heights_filtered = Measure(2)
        /\ pc = "done" =>
               /\ avg_width = Mean(widths_filtered)
               /\ avg_height = Mean(heights_filtered)

\* Ten pages, one of them far wider but of the common height: its width was
\* dropped, its height was not, and the averages are over 9 and 10 pages.
C8_Witness ==
    /\ Inspected
    /\ Len(doc) = 10
    /\ doc[3] = <<40, 20>>
    /\ Len(widths_filtered) = 9
    /\ Len(heights_filtered) = 10
    /\ avg_width[2] = 9 /\ avg_height[2] = 10

(***************************************************************************)
(* Properties of convert                                                    *)
(***************************************************************************)
\* The name of the n-th page's image, 1 <= n <= 999: three decimal digits,
\* then ".jpg".
PageFileName(n) ==
    <<48 + (n \div 100), 48 + ((n \div 10) % 10), 48 + (n % 10), 46, 106, 112, 103>>

\* min(L, N), or N without a limit.
MinLimitPages ==
    IF limit = <<>> THEN Len(doc)
    ELSE IF limit[1] <= Len(doc) THEN limit[1] ELSE Len(doc)

PageLoopDone ==
    cmd = "convert" /\ pc \in {"zip", "cleanup", "echo", "done", "IsADirectoryError"}

\* The images written are those of the page indices 0 .. n-1, in that order,
\* under the names 001.jpg, 002.jpg, ...
WrotePages(n) ==
    /\ Len(saved) = n
    /\ \A i \in 1..Len(saved) : saved[i] = PageFileName(i)
    /\ pc = "zip" =>
           \A i \in 1..Len(saved) :
               \E e \in tmp_dir.entries :
                   /\ e.name = PageFileName(i)
                   /\ e.content.src = "run"
                   /\ e.content.page = i - 1

\* C3 as stated: with the page loop done, exactly min(L, N) images were
\* written (N without a limit), the one of page index i named by i + 1 in
\* three digits.
C3_WritesMinLimitPages ==
    PageLoopDone => WrotePages(MinLimitPages)

\* C3 amended: exactly max(0, min(L, N)) images.
C3_WritesMinLimitPagesOrNone ==
    PageLoopDone => WrotePages(IF MinLimitPages < 0 THEN 0 ELSE MinLimitPages)

\* Three pages under --limit 2: two images written, the archive being built.
C3_Witness ==
    /\ cmd = "convert"
    /\ pc = "zip"
    /\ Len(doc) = 3
    /\ limit = <<2>>
    /\ saved = <<PageFileName(1), PageFileName(2)>>

\* C2: once <stem>.cbz is in place its entries are, in archive order, the
\* images of the pages rasterized in this run and nothing else, whatever the
\* temp directory held when the command started.
C2_ArchiveHoldsThisRunsPages ==
    (cmd = "convert" /\ pc \in {"cleanup", "echo", "done", "IsADirectoryError"}) =>
        /\ cbz_file.exists
        /\ Len(cbz_file.entries) = Len(saved)
        /\ \A i \in 1..Len(cbz_file.entries) :
               cbz_file.entries[i].arcname = PageFileName(i)

\* C6: a run that has renamed the archive ends with <stem>.cbz present,
\* <stem>.zip absent, the temp directory absent and the completion line
\* printed, whatever the temp directory contained at the start.
C6_RunEndsWithTempDirGone ==
    (cmd = "convert" /\ pc \in {"done", "IsADirectoryError"}) =>
        /\ cbz_file.exists
        /\ ~zip_file.exists
        /\ ~tmp_dir.exists
        /\ stdout = <<"Completed">>

\* C9: a run that failed on the page of index k (page_num) has left the temp
\* directory with the images 001.jpg .. k of the pages written, and
\* <stem>.zip and <stem>.cbz as it found them; and in every step that takes an
\* image out of the temp directory, <stem>.cbz is already in place.
C9_State ==
    (cmd = "convert" /\ pc = "RuntimeError") =>
        /\ tmp_dir.exists
        /\ \A i \in 1..page_num :
               \E e \in tmp_dir.entries :
                   /\ e.name = PageFileName(i)
                   /\ e.content.src = "run"
                   /\ e.content.page = i - 1
        /\ zip_file = fs0.zip_file
        /\ cbz_file = fs0.cbz_file
        /\ stdout = <<>>

ImageRemoved ==
    \E e \in tmp_dir.entries :
        /\ IsJpg(e.name)
        /\ \A o \in tmp_dir'.entries : o.name # e.name

C9_Step ==
    ImageRemoved => (pc = "cleanup" /\ cbz_file.exists /\ ~zip_file.exists
                     /\ cbz_file' = cbz_file)

C9_FailureLeavesImagesAndNoArchive == [](C9_State) /\ [][C9_Step]_vars

\* The third page (index 2) failed: 001.jpg and 002.jpg are in the temp
\* directory, no archive was made.
C9_Witness ==
    /\ cmd = "convert"
    /\ pc = "RuntimeError"
    /\ page_num = 2
    /\ fs0.zip_file = Absent /\ zip_file = Absent
    /\ fs0.cbz_file = Absent /\ cbz_file = Absent
    /\ {PageFileName(1), PageFileName(2)} \subseteq {e.name : e \in tmp_dir.entries}
====
